---- MODULE Spec2Model ----
(***************************************************************************)
(* plane-cli: the fuzzy title matcher (internal/fuzzy/matcher.go), the     *)
(* list merge helpers of bulk-update and the batch update commands         *)
(* (update --title-fuzzy, bulk-update, interactive bulk update).           *)
(*                                                                         *)
(* Strings are sequences of one-character strings.  The scoring library    *)
(* github.com/sahilm/fuzzy is outside the repository: its result for one   *)
(* search is an input of the model (variable found), constrained only by   *)
(* the library's contract (distinct indices, descending raw score).        *)
(***************************************************************************)
EXTENDS Integers, Sequences, FiniteSets, TLC

VARIABLES
    \* ---- fuzzy.Matcher and one FindMatches call ----
    minScore,      \* Matcher.minScore
    minArg,        \* the argument of the last NewMatcher / SetMinScore call
    pattern,       \* the pattern argument of FindMatches
    nItems,        \* len(items)
    found,         \* what fuzzy.Find returns for (pattern, items)
    called,        \* FindMatches has returned
    usedMin,       \* m.minScore at the time of the call
    results,       \* the value FindMatches returned
    \* ---- one normalizeScore call ----
    argRaw,        \* the rawScore argument
    argLen,        \* the patternLength argument
    scored,        \* normalizeScore has returned
    normalized,    \* the value it returned
    \* ---- one LimitResults call on the result of FindMatches ----
    limitArg,      \* the limit argument
    limitDone,     \* LimitResults has returned
    limited,       \* the value it returned
    \* ---- one selection typed into updateInteractive ----
    selInput,      \* the comma-separated parts of the input, as Atoi reads them
    selMax,        \* len(items)
    selDone,       \* parseSelection has returned and the targets are built
    selOut,        \* what parseSelection returned
    selTargets,    \* the ids of selectedItems, in order
    \* ---- the fetch of the work items, page by page ----
    fetcher,       \* the function that fetches
    srv,           \* the server: the answer to a request, by the cursor sent
    requests,      \* the cursor of each GetWorkItems request sent (0: none)
    allItems,      \* local allItems
    pagePc,        \* "loop" while in the loop, "done" after the return
    pageRet,       \* the error returned: "running", "nil" or "err"
    \* ---- mergeSlices ----
    existing,      \* first argument of mergeSlices
    incoming,      \* second argument of mergeSlices
    mstep,         \* 0: not called, 1: merged once, 2: merged again
    merged,        \* mergeSlices(existing, incoming)
    remerged,      \* mergeSlices(merged, incoming)
    \* ---- one run of update / bulk-update / interactive bulk update ----
    cmd,           \* "updateID", "update", "bulk", "menu" or "search"; "none" outside a run
    pc,            \* position of the run
    dryRun,        \* --dry-run
    interactive,   \* --interactive
    auto,          \* --auto
    flags,         \* the flags that fill the payload
    allWorkItems,  \* the work items fetched from the project
    matches,       \* the match list the targets are taken from
    cfgMin,        \* the threshold of the matcher the search built, -1 before a search
    fuzzyMatches,  \* what FindMatches returned for the search of the command
    containing,    \* the titles the fallback loop found to contain the term
    selected,      \* matchedItems / selectedItems / selectedWorkItems
    assignees,     \* local assignees of the payload construction
    replaceAssignees, \* local replaceAssignees of the payload construction
    cleared,       \* json keys of the fields the user set to empty or to zero
    update,        \* the WorkItemUpdate payload
    liveUpdate,    \* the payload the run without --dry-run builds from the same inputs
    hasUpdates,    \* local hasUpdates
    fields,        \* iterations of the field menu so far
    successCount,  \* local successCount
    failCount,     \* local failCount
    calls,         \* the UpdateWorkItem calls issued, in order
    preview,       \* the ids listed by the preview, in order
    outcomes,      \* the per-target report lines, in order
    summary,       \* the closing summary line, <<>> while not printed
    ret            \* what the command returned, "running" before

matcherVars == <<minScore, minArg, pattern, nItems, found, called, usedMin, results>>
normVars == <<argRaw, argLen, scored, normalized>>
limitVars == <<limitArg, limitDone, limited>>
parseVars == <<selInput, selMax, selDone, selOut, selTargets>>
pageVars == <<fetcher, srv, requests, allItems, pagePc, pageRet>>
mergeVars == <<existing, incoming, mstep, merged, remerged>>
cmdVars ==
    <<cmd, pc, dryRun, interactive, auto, flags, allWorkItems, matches, cfgMin, fuzzyMatches, containing, selected,
      assignees, replaceAssignees, cleared, update, liveUpdate, hasUpdates, fields,
      successCount, failCount, calls, preview, outcomes, summary, ret>>
vars == <<matcherVars, normVars, limitVars, parseVars, pageVars, mergeVars, cmdVars>>

-----------------------------------------------------------------------------
(* Bounds of the model *)

MaxItems == 3
MaxPatLen == 5
MaxList == 3

\* raw scores the scoring library may report (it can report negative ones)
RawScores == {-1, 1, 2, 9}
\* values handed to NewMatcher / SetMinScore
MinScoreInputs == {-5, 60, 100, 150}
\* assignee / label ids
Ids == {"u1", "u2", "u3"}

-----------------------------------------------------------------------------
(* Generic helpers *)

Range(s) == {s[i] : i \in 1..Len(s)}

SeqsUpTo(S, n) == UNION {[1..k -> S] : k \in 0..n}

Min(a, b) == IF a < b THEN a ELSE b

-----------------------------------------------------------------------------
(* internal/fuzzy/matcher.go *)

\* strings.ToLower on the model's alphabet
ToLower(s) == [i \in 1..Len(s) |-> IF s[i] = "A" THEN "a" ELSE s[i]]

\* strings.TrimSpace
RECURSIVE TrimLeft(_)
TrimLeft(s) == IF s # <<>> /\ Head(s) = " " THEN TrimLeft(Tail(s)) ELSE s

RECURSIVE TrimRight(_)
TrimRight(s) ==
    IF s # <<>> /\ s[Len(s)] = " " THEN TrimRight(SubSeq(s, 1, Len(s) - 1)) ELSE s

TrimSpace(s) == TrimRight(TrimLeft(s))

\* only the lower end is clamped
ClampMinScoreLowOnly(v) == IF v < 0 THEN 0 ELSE v

\* NewMatcher / SetMinScore: the clamp of the threshold
ClampMinScore(v) == IF v < 0 THEN 0 ELSE IF v > 100 THEN 100 ELSE v

NewMatcher(v) == ClampMinScore(v)

\* the result is not cut at 100
normalizeScoreNoClamp(rawScore, patternLength) ==
    IF rawScore <= 0 \/ patternLength <= 0 THEN 0
    ELSE LET maxScore == IF patternLength <= 2 THEN patternLength * 2
                         ELSE IF patternLength <= 4 THEN patternLength * 3
                         ELSE patternLength * 4
             base == (rawScore * 100) \div maxScore
             percentage == IF patternLength <= 3 /\ rawScore >= patternLength
                           THEN base + 30 ELSE base
         IN IF percentage < 0 THEN 0 ELSE percentage

\* the boost is given to patterns of length 4 as well
normalizeScoreBoost4(rawScore, patternLength) ==
    IF rawScore <= 0 \/ patternLength <= 0 THEN 0
    ELSE LET maxScore == IF patternLength <= 2 THEN patternLength * 2
                         ELSE IF patternLength <= 4 THEN patternLength * 3
                         ELSE patternLength * 4
             base == (rawScore * 100) \div maxScore
             percentage == IF patternLength <= 4 /\ rawScore >= patternLength
                           THEN base + 30 ELSE base
         IN IF percentage > 100 THEN 100
            ELSE IF percentage < 0 THEN 0
            ELSE percentage

\* the first test lets zero through (< instead of <=); the division by a
\* ceiling of zero is a run-time panic, returned as -1
normalizeScoreStrictTest(rawScore, patternLength) ==
    IF rawScore < 0 \/ patternLength < 0 THEN 0
    ELSE LET maxScore == IF patternLength <= 2 THEN patternLength * 2
                         ELSE IF patternLength <= 4 THEN patternLength * 3
                         ELSE patternLength * 4
         IN IF maxScore = 0 THEN -1
            ELSE LET base == (rawScore * 100) \div maxScore
                     percentage == IF patternLength <= 3 /\ rawScore >= patternLength
                                   THEN base + 30 ELSE base
                 IN IF percentage > 100 THEN 100
                    ELSE IF percentage < 0 THEN 0
                    ELSE percentage

\* normalizeScore(rawScore, patternLength)
normalizeScore(rawScore, patternLength) ==
    IF rawScore <= 0 \/ patternLength <= 0 THEN 0
    ELSE LET maxScore == IF patternLength <= 2 THEN patternLength * 2
                         ELSE IF patternLength <= 4 THEN patternLength * 3
                         ELSE patternLength * 4
             base == (rawScore * 100) \div maxScore
             percentage == IF patternLength <= 3 /\ rawScore >= patternLength
                           THEN base + 30 ELSE base
         IN IF percentage > 100 THEN 100
            ELSE IF percentage < 0 THEN 0
            ELSE percentage

\* fuzzy.Find(pattern, items): the library returns nothing for an empty
\* pattern and otherwise the matches in descending order of raw score
FuzzyFind(p, fnd) == IF Len(p) = 0 THEN <<>> ELSE fnd

\* the loop of FindMatches over the library's matches (lines 58-71)
Accepts(score, min) == score >= min

RECURSIVE Convert(_, _, _)
Convert(ms, patLen, min) ==
    IF ms = <<>> THEN <<>>
    ELSE LET match == Head(ms)
             normalizedScore == normalizeScore(match.Score, patLen)
             rest == Convert(Tail(ms), patLen, min)
         IN IF Accepts(normalizedScore, min)
            THEN <<[Index |-> match.Index, Score |-> normalizedScore]>> \o rest
            ELSE rest

\* a less function that orders by ascending score
LessAscending(a, b) == a.Score < b.Score

\* the less function handed to sort.Slice (line 75)
Less(a, b) == a.Score > b.Score

\* sort.Slice on at most 12 elements is an insertion sort:
\* for i := 1; i < n; i++ { for j := i; j > 0 && less(j, j-1); j-- { swap } }
RECURSIVE InsertBack(_, _)
InsertBack(s, j) ==
    IF j > 1 /\ Less(s[j], s[j - 1])
    THEN InsertBack([s EXCEPT ![j] = s[j - 1], ![j - 1] = s[j]], j - 1)
    ELSE s

RECURSIVE SortFrom(_, _)
SortFrom(s, i) == IF i > Len(s) THEN s ELSE SortFrom(InsertBack(s, i), i + 1)

SortSlice(s) == SortFrom(s, 2)

\* the empty pattern is not turned away: whatever was found is converted
FindMatchesNoEmptyTest(min, pat, fnd) ==
    LET p == ToLower(TrimSpace(pat))
    IN SortSlice(Convert(fnd, Len(p), min))

\* Matcher.FindMatches(pattern, items)
FindMatches(min, pat, fnd) ==
    IF pat = <<>> THEN <<>>
    ELSE LET p == ToLower(TrimSpace(pat))
         IN SortSlice(Convert(FuzzyFind(p, fnd), Len(p), min))

\* Matcher.FindBestMatch(pattern, items): <<>> for nil, else the first match
FindBestMatch(min, pat, fnd) ==
    LET found_ == FindMatches(min, pat, fnd)
    IN IF Len(found_) = 0 THEN <<>> ELSE <<found_[1]>>

\* a limit of zero or less gives the empty list
LimitResultsZeroEmpty(ms, limit) ==
    IF limit <= 0 THEN <<>>
    ELSE IF Len(ms) <= limit THEN ms
    ELSE SubSeq(ms, 1, limit)

\* LimitResults(matches, limit)
LimitResults(ms, limit) ==
    IF limit <= 0 \/ Len(ms) <= limit THEN ms
    ELSE SubSeq(ms, 1, limit)

-----------------------------------------------------------------------------
(* bulk-update helpers: mergeSlices *)

\* the new items are put first
mergeSlicesNewFirst(ex, new) ==
    LET Step(acc, item) == IF item \in Range(acc) THEN acc ELSE Append(acc, item)
        all == new \o ex
        F[i \in 0..Len(all)] == IF i = 0 THEN <<>> ELSE Step(F[i - 1], all[i])
    IN F[Len(all)]

\* the second loop appends every new item, seen or not
mergeSlicesNoSeen(ex, new) ==
    LET Step(acc, item) == IF item \in Range(acc) THEN acc ELSE Append(acc, item)
        F[i \in 0..Len(ex)] == IF i = 0 THEN <<>> ELSE Step(F[i - 1], ex[i])
    IN F[Len(ex)] \o new

\* mergeSlices(existing, new): seen is the set of members of result
mergeSlices(ex, new) ==
    LET Step(acc, item) == IF item \in Range(acc) THEN acc ELSE Append(acc, item)
        all == ex \o new
        F[i \in 0..Len(all)] == IF i = 0 THEN <<>> ELSE Step(F[i - 1], all[i])
    IN F[Len(all)]

-----------------------------------------------------------------------------
(* internal/plane/types.go: WorkItemUpdate and its JSON encoding *)

\* the zero value &plane.WorkItemUpdate{}
NoUpdate ==
    [Name |-> "", State |-> "", Priority |-> "", Assignees |-> <<>>, Labels |-> <<>>,
     EstimatePoint |-> 0, Module |-> ""]

\* the json key of each field
JsonKey ==
    [Name |-> "name", State |-> "state", Priority |-> "priority",
     Assignees |-> "assignees", Labels |-> "labels",
     EstimatePoint |-> "estimate_point", Module |-> "module"]

\* every field is tagged omitempty: "", 0 and a slice of length 0 are left out
IsEmptyValue(f, v) ==
    CASE f \in {"Assignees", "Labels"} -> Len(v) = 0
      [] f = "EstimatePoint" -> v = 0
      [] OTHER -> v = ""

\* json.Marshal(update): the request body, a function from the keys written
MarshalJSON(u) ==
    LET present == {f \in DOMAIN u : ~IsEmptyValue(f, u[f])}
    IN [key \in {JsonKey[f] : f \in present} |->
            u[CHOOSE f \in present : JsonKey[f] = key]]

-----------------------------------------------------------------------------
(* Inputs *)

\* the patterns given to FindMatches: n letters in either case, bare or with a
\* blank on both sides
Blanks(k) == [i \in 1..k |-> " "]
Letters(n, c) == [i \in 1..n |-> c]
Patterns ==
    {Blanks(b) \o Letters(n, c) \o Blanks(b) :
        b \in 0..1, n \in 0..MaxPatLen, c \in {"a", "A"}}

\* what fuzzy.Find may return for n items: matches with distinct indices in
\* 0..n-1, in descending order of raw score
IsFindResult(f, n) ==
    /\ \A i \in 1..Len(f) : f[i].Index \in 0..(n - 1)
    /\ \A i, j \in 1..Len(f) : i # j => f[i].Index # f[j].Index
    /\ \A i \in 1..(Len(f) - 1) : f[i].Score >= f[i + 1].Score

FindResults(n) ==
    {f \in SeqsUpTo([Index : 0..(n - 1), Score : RawScores], n) : IsFindResult(f, n)}

-----------------------------------------------------------------------------
(* Matcher: state machine of one matcher object *)

SetMinScore(v) ==
    /\ minScore' = ClampMinScore(v)
    /\ minArg' = v
    /\ UNCHANGED <<pattern, nItems, found, called, usedMin, results>>
    /\ UNCHANGED <<normVars, limitVars, parseVars, pageVars, mergeVars, cmdVars>>

CallFindMatches ==
    /\ ~called
    /\ called' = TRUE
    /\ usedMin' = minScore
    /\ results' = FindMatches(minScore, pattern, found)
    /\ UNCHANGED <<minScore, minArg, pattern, nItems, found>>
    /\ UNCHANGED <<normVars, limitVars, parseVars, pageVars, mergeVars, cmdVars>>

CallMerge ==
    /\ mstep = 0
    /\ mstep' = 1
    /\ merged' = mergeSlices(existing, incoming)
    /\ UNCHANGED <<existing, incoming, remerged>>
    /\ UNCHANGED <<matcherVars, normVars, limitVars, parseVars, pageVars, cmdVars>>

CallMergeAgain ==
    /\ mstep = 1
    /\ mstep' = 2
    /\ remerged' = mergeSlices(merged, incoming)
    /\ UNCHANGED <<existing, incoming, merged>>
    /\ UNCHANGED <<matcherVars, normVars, limitVars, parseVars, pageVars, cmdVars>>

MatcherNext ==
    \/ \E v \in MinScoreInputs : SetMinScore(v)
    \/ CallFindMatches

\* NewMatcher(v), and the arguments of the FindMatches call to come
MatcherInit ==
    /\ minArg \in MinScoreInputs
    /\ minScore = NewMatcher(minArg)
    /\ argRaw = 0
    /\ argLen = 0
    /\ scored = FALSE
    /\ normalized = 0
    /\ limitArg = 0
    /\ limitDone = FALSE
    /\ limited = <<>>
    /\ selInput = <<>>
    /\ selMax = 0
    /\ selDone = FALSE
    /\ selOut = <<>>
    /\ selTargets = <<>>
    /\ fetcher = "none"
    /\ srv = <<>>
    /\ requests = <<>>
    /\ allItems = <<>>
    /\ pagePc = "done"
    /\ pageRet = "nil"
    /\ pattern \in Patterns
    /\ nItems \in 0..MaxItems
    /\ found \in FindResults(nItems)
    /\ called = FALSE
    /\ usedMin = 0
    /\ results = <<>>
    /\ existing = <<>>
    /\ incoming = <<>>
    /\ mstep = 0
    /\ merged = <<>>
    /\ remerged = <<>>
    /\ cmd = "none"
    /\ pc = "done"
    /\ dryRun = FALSE
    /\ interactive = FALSE
    /\ auto = FALSE
    /\ flags = <<>>
    /\ allWorkItems = <<>>
    /\ matches = <<>>
    /\ cfgMin = -1
    /\ fuzzyMatches = <<>>
    /\ containing = {}
    /\ selected = <<>>
    /\ assignees = <<>>
    /\ replaceAssignees = FALSE
    /\ cleared = {}
    /\ update = NoUpdate
    /\ liveUpdate = NoUpdate
    /\ hasUpdates = FALSE
    /\ fields = 0
    /\ successCount = 0
    /\ failCount = 0
    /\ calls = <<>>
    /\ preview = <<>>
    /\ outcomes = <<>>
    /\ summary = <<>>
    /\ ret = "running"

MatcherSpec == MatcherInit /\ [][MatcherNext]_vars

-----------------------------------------------------------------------------
(* FindMatches followed by LimitResults *)

\* the limits handed to LimitResults
LimitInputs == (-1)..(MaxItems + 1)
LimitMinScores == {60, 150}
LimitPatterns == {<<>>, <<" ">>, <<"a">>, <<" ", "A", "a", " ">>}

CallLimitResults ==
    /\ called
    /\ ~limitDone
    /\ limitDone' = TRUE
    /\ limited' = LimitResults(results, limitArg)
    /\ UNCHANGED limitArg
    /\ UNCHANGED <<matcherVars, normVars, parseVars, pageVars, mergeVars, cmdVars>>

LimitNext ==
    \/ CallFindMatches
    \/ CallLimitResults

\* NewMatcher(v), the arguments of the FindMatches call and the limit
LimitInit ==
    /\ minArg \in LimitMinScores
    /\ minScore = NewMatcher(minArg)
    /\ argRaw = 0
    /\ argLen = 0
    /\ scored = FALSE
    /\ normalized = 0
    /\ limitArg \in LimitInputs
    /\ limitDone = FALSE
    /\ limited = <<>>
    /\ selInput = <<>>
    /\ selMax = 0
    /\ selDone = FALSE
    /\ selOut = <<>>
    /\ selTargets = <<>>
    /\ fetcher = "none"
    /\ srv = <<>>
    /\ requests = <<>>
    /\ allItems = <<>>
    /\ pagePc = "done"
    /\ pageRet = "nil"
    /\ pattern \in LimitPatterns
    /\ nItems \in 0..MaxItems
    /\ found \in FindResults(nItems)
    /\ called = FALSE
    /\ usedMin = 0
    /\ results = <<>>
    /\ existing = <<>>
    /\ incoming = <<>>
    /\ mstep = 0
    /\ merged = <<>>
    /\ remerged = <<>>
    /\ cmd = "none"
    /\ pc = "done"
    /\ dryRun = FALSE
    /\ interactive = FALSE
    /\ auto = FALSE
    /\ flags = <<>>
    /\ allWorkItems = <<>>
    /\ matches = <<>>
    /\ cfgMin = -1
    /\ fuzzyMatches = <<>>
    /\ containing = {}
    /\ selected = <<>>
    /\ assignees = <<>>
    /\ replaceAssignees = FALSE
    /\ cleared = {}
    /\ update = NoUpdate
    /\ liveUpdate = NoUpdate
    /\ hasUpdates = FALSE
    /\ fields = 0
    /\ successCount = 0
    /\ failCount = 0
    /\ calls = <<>>
    /\ preview = <<>>
    /\ outcomes = <<>>
    /\ summary = <<>>
    /\ ret = "running"

LimitSpec == LimitInit /\ [][LimitNext]_vars

MergeNext ==
    \/ CallMerge
    \/ CallMergeAgain

\* the arguments of the mergeSlices call to come
MergeInit ==
    /\ existing \in SeqsUpTo(Ids, MaxList)
    /\ incoming \in SeqsUpTo(Ids, MaxList)
    /\ mstep = 0
    /\ merged = <<>>
    /\ remerged = <<>>
    /\ minScore = 0
    /\ minArg = 0
    /\ argRaw = 0
    /\ argLen = 0
    /\ scored = FALSE
    /\ normalized = 0
    /\ limitArg = 0
    /\ limitDone = FALSE
    /\ limited = <<>>
    /\ selInput = <<>>
    /\ selMax = 0
    /\ selDone = FALSE
    /\ selOut = <<>>
    /\ selTargets = <<>>
    /\ fetcher = "none"
    /\ srv = <<>>
    /\ requests = <<>>
    /\ allItems = <<>>
    /\ pagePc = "done"
    /\ pageRet = "nil"
    /\ pattern = <<>>
    /\ nItems = 0
    /\ found = <<>>
    /\ called = FALSE
    /\ usedMin = 0
    /\ results = <<>>
    /\ cmd = "none"
    /\ pc = "done"
    /\ dryRun = FALSE
    /\ interactive = FALSE
    /\ auto = FALSE
    /\ flags = <<>>
    /\ allWorkItems = <<>>
    /\ matches = <<>>
    /\ cfgMin = -1
    /\ fuzzyMatches = <<>>
    /\ containing = {}
    /\ selected = <<>>
    /\ assignees = <<>>
    /\ replaceAssignees = FALSE
    /\ cleared = {}
    /\ update = NoUpdate
    /\ liveUpdate = NoUpdate
    /\ hasUpdates = FALSE
    /\ fields = 0
    /\ successCount = 0
    /\ failCount = 0
    /\ calls = <<>>
    /\ preview = <<>>
    /\ outcomes = <<>>
    /\ summary = <<>>
    /\ ret = "running"

MergeSpec == MergeInit /\ [][MergeNext]_vars

-----------------------------------------------------------------------------
(* normalizeScore: one call on arguments of the caller's choice *)

MaxRaw == 30

\* raw scores: the library reports negative scores, zero and scores above
\* every ceiling
RawInputs == (-3)..MaxRaw

CallNormalizeScore ==
    /\ ~scored
    /\ scored' = TRUE
    /\ normalized' = normalizeScore(argRaw, argLen)
    /\ UNCHANGED <<argRaw, argLen>>
    /\ UNCHANGED <<matcherVars, limitVars, parseVars, pageVars, mergeVars, cmdVars>>

NormNext == CallNormalizeScore

NormInit ==
    /\ existing = <<>>
    /\ incoming = <<>>
    /\ mstep = 0
    /\ merged = <<>>
    /\ remerged = <<>>
    /\ minScore = 0
    /\ minArg = 0
    /\ argRaw \in RawInputs
    /\ argLen \in 0..MaxPatLen
    /\ scored = FALSE
    /\ normalized = 0
    /\ limitArg = 0
    /\ limitDone = FALSE
    /\ limited = <<>>
    /\ selInput = <<>>
    /\ selMax = 0
    /\ selDone = FALSE
    /\ selOut = <<>>
    /\ selTargets = <<>>
    /\ fetcher = "none"
    /\ srv = <<>>
    /\ requests = <<>>
    /\ allItems = <<>>
    /\ pagePc = "done"
    /\ pageRet = "nil"
    /\ pattern = <<>>
    /\ nItems = 0
    /\ found = <<>>
    /\ called = FALSE
    /\ usedMin = 0
    /\ results = <<>>
    /\ cmd = "none"
    /\ pc = "done"
    /\ dryRun = FALSE
    /\ interactive = FALSE
    /\ auto = FALSE
    /\ flags = <<>>
    /\ allWorkItems = <<>>
    /\ matches = <<>>
    /\ cfgMin = -1
    /\ fuzzyMatches = <<>>
    /\ containing = {}
    /\ selected = <<>>
    /\ assignees = <<>>
    /\ replaceAssignees = FALSE
    /\ cleared = {}
    /\ update = NoUpdate
    /\ liveUpdate = NoUpdate
    /\ hasUpdates = FALSE
    /\ fields = 0
    /\ successCount = 0
    /\ failCount = 0
    /\ calls = <<>>
    /\ preview = <<>>
    /\ outcomes = <<>>
    /\ summary = <<>>
    /\ ret = "running"

NormSpec == NormInit /\ [][NormNext]_vars

-----------------------------------------------------------------------------
(* The commands: inputs *)

MaxWork == 2
MaxTokens == 2
MaxMenu == 2

\* the i-th work item of the project
WorkItem(i) ==
    [ID |-> i,
     Assignees |-> IF i % 3 = 1 THEN <<"u1">> ELSE IF i % 3 = 2 THEN <<"u2", "u1">> ELSE <<>>,
     Labels |-> IF i % 2 = 1 THEN <<"l1">> ELSE <<>>]

Project(n) == [i \in 1..n |-> WorkItem(i)]

\* error texts client.UpdateWorkItem may return
Errors == {"e1", "e2"}

\* the search terms of the commands (never the empty string): one letter,
\* three letters in blanks, and a blank
SearchTerms == {<<"a">>, <<" ", "A", "a", "a", " ">>, <<" ">>}

\* the flags of `bulk-update` that fill the payload
NoBulkFlags ==
    [assignees |-> <<>>, replaceAssignees |-> FALSE, estimate |-> -1, labels |-> <<>>,
     replaceLabels |-> FALSE, module |-> "", state |-> "", priority |-> ""]

BulkFlagSets ==
    {NoBulkFlags,
     [NoBulkFlags EXCEPT !.state = "s1"],
     [NoBulkFlags EXCEPT !.assignees = <<"u3", "u3", "u1">>, !.replaceAssignees = TRUE],
     [NoBulkFlags EXCEPT !.assignees = <<"u3", "u1">>, !.labels = <<"l2">>],
     [NoBulkFlags EXCEPT !.estimate = 0, !.module = "m1", !.priority = "high",
                         !.labels = <<"l2", "l1">>, !.replaceLabels = TRUE],
     [NoBulkFlags EXCEPT !.estimate = 3]}

\* what the user answers in selectAssigneesInteractive / selectLabelsInteractive:
\* the action chosen and the ids ticked; "error" is a failed request or prompt
AssigneeAnswers ==
    {[kind |-> "add", ids |-> <<"u3">>], [kind |-> "replace", ids |-> <<"u3">>],
     [kind |-> "clear", ids |-> <<>>], [kind |-> "cancel", ids |-> <<>>],
     [kind |-> "error", ids |-> <<>>]}

LabelAnswers ==
    {[kind |-> "add", ids |-> <<"l2">>], [kind |-> "clear", ids |-> <<>>],
     [kind |-> "cancel", ids |-> <<>>]}

\* selectEstimateInteractive: a prompt error, an empty line (-1) or a number
EstimateAnswers ==
    {[err |-> "prompt failed", val |-> -1], [err |-> "", val |-> -1],
     [err |-> "", val |-> 0]}

\* selectModuleInteractive: an error, "Clear module" ("") or a module id
ModuleAnswers ==
    {[err |-> "failed to get modules", val |-> ""], [err |-> "", val |-> ""],
     [err |-> "", val |-> "m1"]}

\* the configured fuzzy.min_score and the library's answers of the commands
CmdMinScores == {-5, 60}

CmdFindResults(n) ==
    {f \in FindResults(n) : \A i \in 1..Len(f) : f[i].Score \in {1, 9}}

\* sequences of distinct members of S, and those that hold all of S
Arrangements(S) ==
    {q \in SeqsUpTo(S, Cardinality(S)) : \A i, j \in 1..Len(q) : i # j => q[i] # q[j]}

Perms(S) == {q \in Arrangements(S) : Len(q) = Cardinality(S)}

\* the flags of `update` that fill the payload
UpdateFlagSets ==
    {[title |-> "t", state |-> "", priority |-> "", assignees |-> <<>>, labels |-> <<>>,
      estimate |-> 0, module |-> ""],
     [title |-> "", state |-> "s1", priority |-> "high", assignees |-> <<"u3">>,
      labels |-> <<"l2">>, estimate |-> 3, module |-> "m1"]}

\* what strconv.Atoi makes of one comma-separated part of the selection
Tokens(max) ==
    {[err |-> TRUE, num |-> 0]} \cup {[err |-> FALSE, num |-> v] : v \in -1..(max + 1)}

Selections(max) == SeqsUpTo(Tokens(max), MaxTokens) \ {<<>>}

-----------------------------------------------------------------------------
(* internal/commands/update.go *)

\* runUpdate, lines 152-190: the payload built from the flags
BuildUpdate(fl) ==
    [Name |-> fl.title, State |-> fl.state, Priority |-> fl.priority,
     Assignees |-> fl.assignees, Labels |-> fl.labels,
     EstimatePoint |-> IF fl.estimate > 0 THEN fl.estimate ELSE 0,
     Module |-> fl.module]

\* the work items the matches point to (match.Index counts from 0)
ItemsOf(items, ms) == [i \in 1..Len(ms) |-> items[ms[i].Index + 1]]

IdsOf(items) == [i \in 1..Len(items) |-> items[i].ID]

\* parseSelection(input, max)
RECURSIVE parseSelection(_, _)
parseSelection(input, max) ==
    IF input = <<>> THEN <<>>
    ELSE LET part == Head(input)
             rest == parseSelection(Tail(input), max)
         IN IF ~part.err /\ part.num > 0 /\ part.num <= max
            THEN <<part.num>> \o rest
            ELSE rest

\* the loop of updateAll / runBulkUpdate stops once a call fails
NextPcAbort(i, n, res) == IF i = n \/ res # "ok" THEN "done" ELSE "apply"

\* the loop over the targets goes on to the next target whatever the result
NextPc(i, n, res) == IF i = n THEN "done" ELSE "apply"

\* every processed target is counted as a success
NextSuccessAll(count, res) == count + 1

\* successCount++ on a nil error only
NextSuccess(count, res) == IF res = "ok" THEN count + 1 ELSE count

\* failCount++ on an error (runBulkUpdate, runBulkUpdateInteractive);
\* updateAll keeps no failure counter
NextFail(count, res) ==
    IF cmd \in {"bulk", "menu"} /\ res # "ok" THEN count + 1 ELSE count

\* client.UpdateWorkItem(project, id, update): the request and the error
\* it returns ("" for nil)
UpdateWorkItem(id, u, res) ==
    [ID |-> id, Body |-> MarshalJSON(u), Err |-> IF res = "ok" THEN "" ELSE res]

\* the report line of one target
ReportLine(item, res) ==
    [ID |-> item.ID, ok |-> res = "ok", err |-> IF res = "ok" THEN "" ELSE res]

\* the closing lines printed after the loop
SummaryLines(succ, fail, n) ==
    <<[kind |-> "updated", count |-> succ, of |-> n]>>
        \o (IF cmd \in {"bulk", "menu"} /\ fail > 0
            THEN <<[kind |-> "failed", count |-> fail, of |-> n]>> ELSE <<>>)

\* the command fails when a target failed
BatchReturnFailed(fail) == IF fail > 0 THEN "failed" ELSE "nil"

\* what the command returns after the loop: `return nil`, whatever failed
BatchReturn(fail) == "nil"

matcherIdle == UNCHANGED <<matcherVars, normVars, limitVars, parseVars, pageVars, mergeVars>>

\* updateByID
UpdateByID ==
    /\ cmd = "updateID" /\ pc = "start"
    /\ \E i \in 1..MaxWork, get \in {"ok", "err"}, res \in {"ok"} \cup Errors :
        IF get = "err"
        THEN /\ ret' = "failed to get work item"
             /\ UNCHANGED <<calls, preview, selected>>
        ELSE /\ selected' = <<WorkItem(i)>>
             /\ IF dryRun
                THEN /\ preview' = <<i>>
                     /\ ret' = "nil"
                     /\ UNCHANGED calls
                ELSE /\ calls' = Append(calls, UpdateWorkItem(i, update, res))
                     /\ ret' = IF res = "ok" THEN "nil" ELSE "failed to update work item"
                     /\ UNCHANGED preview
    /\ pc' = "done"
    /\ UNCHANGED <<cmd, dryRun, interactive, auto, flags, allWorkItems, matches, cfgMin, fuzzyMatches, containing,
                   assignees, replaceAssignees, cleared, update, liveUpdate, hasUpdates,
                   fields, successCount, failCount, outcomes, summary>>
    /\ matcherIdle

\* --auto is looked at before --dry-run
ModeAutoFirst(dry, inter, au) ==
    IF au THEN "apply"
    ELSE IF dry THEN "dryrun"
    ELSE IF inter THEN "pick" ELSE "ask"

\* updateByFuzzyTitle, "Handle different modes": --dry-run comes first,
\* then --interactive, then --auto, then the prompt
ModeAfterMatch(dry, inter, au) ==
    IF dry THEN "dryrun"
    ELSE IF inter THEN "pick"
    ELSE IF au THEN "apply" ELSE "ask"

\* updateByFuzzyTitle up to its first prompt or to updateAll
UpdateByFuzzyTitle ==
    /\ cmd = "update" /\ pc = "start"
    /\ \E pat \in SearchTerms, min \in CmdMinScores, fnd \in CmdFindResults(Len(allWorkItems)) :
        LET m == NewMatcher(min)
            ms == FindMatches(m, pat, fnd)
            matchedItems == ItemsOf(allWorkItems, ms)
        IN /\ matches' = ms
           /\ cfgMin' = m
           /\ fuzzyMatches' = ms
           /\ containing' = {}
           /\ IF Len(ms) = 0
              THEN /\ pc' = "done" /\ ret' = "nil"
                   /\ UNCHANGED <<selected, preview>>
              ELSE LET mode == ModeAfterMatch(dryRun, interactive, auto)
                   IN /\ selected' = matchedItems
                      /\ IF mode = "dryrun"
                         THEN /\ preview' = IdsOf(matchedItems)
                              /\ pc' = "done" /\ ret' = "nil"
                         ELSE /\ pc' = mode
                              /\ UNCHANGED <<preview, ret>>
    /\ UNCHANGED <<cmd, dryRun, interactive, auto, flags, allWorkItems, assignees,
                   replaceAssignees, cleared, update, liveUpdate, hasUpdates, fields,
                   successCount, failCount, calls, outcomes, summary>>
    /\ matcherIdle

\* updateByFuzzyTitle, the "Update all? (y/n/list)" prompt
UpdateAsk ==
    /\ cmd = "update" /\ pc = "ask"
    /\ \E response \in {"y", "list", "n"} :
        /\ pc' = IF response = "y" THEN "apply"
                 ELSE IF response = "list" THEN "pick" ELSE "done"
        /\ ret' = IF response = "n" THEN "nil" ELSE ret
    /\ UNCHANGED <<cmd, dryRun, interactive, auto, flags, allWorkItems, matches, cfgMin, fuzzyMatches, containing, selected,
                   assignees, replaceAssignees, cleared, update, liveUpdate, hasUpdates,
                   fields, successCount, failCount, calls, preview, outcomes, summary>>
    /\ matcherIdle

\* updateInteractive: "cancel", "all" or a comma-separated selection
UpdateInteractive ==
    /\ cmd = "update" /\ pc = "pick"
    /\ \/ /\ pc' = "done" /\ ret' = "nil"
          /\ UNCHANGED selected
       \/ /\ pc' = "apply"
          /\ UNCHANGED <<selected, ret>>
       \/ \E input \in Selections(Len(selected)) :
            LET sel == parseSelection(input, Len(selected))
            IN IF Len(sel) = 0
               THEN /\ pc' = "done" /\ ret' = "nil"
                    /\ UNCHANGED selected
               ELSE /\ selected' = [i \in 1..Len(sel) |-> selected[sel[i]]]
                    /\ pc' = "apply"
                    /\ UNCHANGED ret
    /\ UNCHANGED <<cmd, dryRun, interactive, auto, flags, allWorkItems, matches, cfgMin, fuzzyMatches, containing,
                   assignees, replaceAssignees, cleared, update, liveUpdate, hasUpdates,
                   fields, successCount, failCount, calls, preview, outcomes, summary>>
    /\ matcherIdle

\* one iteration of the loop over the targets (updateAll, runBulkUpdate,
\* runBulkUpdateInteractive); the last one prints the summary and returns
ApplyOne ==
    /\ pc = "apply"
    /\ \E res \in {"ok"} \cup Errors :
        LET i == Len(outcomes) + 1
            item == selected[i]
            succ == NextSuccess(successCount, res)
            fail == NextFail(failCount, res)
            next == NextPc(i, Len(selected), res)
        IN /\ calls' = Append(calls, UpdateWorkItem(item.ID, update, res))
           /\ outcomes' = Append(outcomes, ReportLine(item, res))
           /\ successCount' = succ
           /\ failCount' = fail
           /\ pc' = next
           /\ summary' = IF next = "done" THEN SummaryLines(succ, fail, Len(selected))
                         ELSE summary
           /\ ret' = IF next = "done" THEN BatchReturn(fail) ELSE ret
    /\ UNCHANGED <<cmd, dryRun, interactive, auto, flags, allWorkItems, matches, cfgMin, fuzzyMatches, containing, selected,
                   assignees, replaceAssignees, cleared, update, liveUpdate, hasUpdates,
                   fields, preview>>
    /\ matcherIdle

-----------------------------------------------------------------------------
(* bulk-update (runBulkUpdate) and the interactive bulk update
   (runBulkUpdateInteractive, chooseBulkUpdateFields) *)

\* every title that contains the term is reported under the first index
SubstringFallbackFirst(n, contains) ==
    [i \in 1..Cardinality(contains) |-> [Index |-> 0, Score |-> 50]]

\* the substring fallback: one MatchResult of score 50 per title that
\* contains the search term, in title order
SubstringFallback(n, contains) ==
    LET F[i \in 0..n] ==
            IF i = 0 THEN <<>>
            ELSE IF (i - 1) \in contains
                 THEN Append(F[i - 1], [Index |-> i - 1, Score |-> 50])
                 ELSE F[i - 1]
    IN F[n]

\* the titles that may contain the search term: a title that contains it
\* also matches it as a subsequence, so the library has reported it
ContainSets(pat, fnd, n) ==
    IF Len(TrimSpace(pat)) = 0 THEN SUBSET (0..(n - 1))
    ELSE SUBSET {fnd[i].Index : i \in 1..Len(fnd)}

\* the map is filled from the first work item only
AllAssigneesFirst(items) ==
    IF Len(items) = 0 THEN {} ELSE Range(items[1].Assignees)

\* the titles with the term are added to whatever FindMatches returned
MatchListAppend(fuzzy, n, contains) == fuzzy \o SubstringFallback(n, contains)

\* the match list of a search: the result of FindMatches, and the substring
\* fallback when that is empty (`if len(matches) == 0`)
MatchList(fuzzy, n, contains) ==
    IF Len(fuzzy) = 0 THEN SubstringFallback(n, contains) ELSE fuzzy

\* the keys of the map built by getAllAssignees / getAllLabels
AllAssignees(items) == UNION {Range(items[i].Assignees) : i \in 1..Len(items)}

AllLabels(items) == UNION {Range(items[i].Labels) : i \in 1..Len(items)}

\* getAllAssignees / getAllLabels return the keys in the order the map
\* iteration yields them, which Go leaves unspecified: any order
getAllAssignees(items) == Perms(AllAssignees(items))

getAllLabels(items) == Perms(AllLabels(items))

\* what selectAssigneesInteractive / selectLabelsInteractive return
SelectResult(ans) ==
    [ids |-> IF ans.kind \in {"add", "replace"} THEN ans.ids ELSE <<>>,
     replace |-> ans.kind \in {"replace", "clear"},
     err |-> IF ans.kind = "cancel" THEN "cancelled"
             ELSE IF ans.kind = "error" THEN "failed" ELSE ""]

NoAnswer == [kind |-> "add", ids |-> <<>>]

\* the list put into the payload: the incoming list as it is in Replace
\* mode, the merge with the targets' current members otherwise
finalList(replace, in, ex) == IF replace THEN in ELSE mergeSlices(ex, in)

bulkFrame == UNCHANGED <<cmd, dryRun, interactive, auto, flags, allWorkItems>>

\* runBulkUpdate, lines 485-535: the selection of the work items
BulkSelect ==
    /\ cmd = "bulk" /\ pc = "start"
    /\ LET n == Len(allWorkItems)
       IN \/ /\ n = 0
             /\ ret' = "no work items found in this project"
             /\ pc' = "done"
             /\ UNCHANGED <<matches, cfgMin, fuzzyMatches, containing, selected>>
          \/ /\ n > 0 /\ ~interactive
             /\ \E pat \in SearchTerms, min \in CmdMinScores, fnd \in CmdFindResults(n) :
                 LET m == NewMatcher(min)
                     fuzzy == FindMatches(m, pat, fnd)
                 IN \E contains \in ContainSets(pat, fnd, n) :
                     LET ms == MatchList(fuzzy, n, contains)
                     IN /\ matches' = ms
                        /\ cfgMin' = m
                        /\ fuzzyMatches' = fuzzy
                        /\ containing' = IF Len(fuzzy) = 0 THEN contains ELSE {}
                        /\ IF Len(ms) = 0
                           THEN /\ ret' = "no work items found matching"
                                /\ pc' = "done"
                                /\ UNCHANGED selected
                           ELSE /\ selected' = ItemsOf(allWorkItems, ms)
                                /\ pc' = "assignees"
                                /\ UNCHANGED ret
          \/ /\ n > 0
             /\ \/ /\ ret' = "cancelled by user"
                   /\ pc' = "done"
                   /\ UNCHANGED selected
                \/ \E indices \in Arrangements(1..n) :
                     IF Len(indices) = 0
                     THEN /\ ret' = "no work items selected"
                          /\ pc' = "done"
                          /\ UNCHANGED selected
                     ELSE /\ selected' = [i \in 1..Len(indices) |-> allWorkItems[indices[i]]]
                          /\ pc' = "assignees"
                          /\ UNCHANGED ret
             /\ UNCHANGED <<matches, cfgMin, fuzzyMatches, containing>>
    /\ UNCHANGED <<assignees, replaceAssignees, cleared, update, liveUpdate, hasUpdates,
                   fields, successCount, failCount, calls, preview, outcomes, summary>>
    /\ bulkFrame
    /\ matcherIdle

\* runBulkUpdate, lines 542-564: assignees
BulkAssignees ==
    /\ cmd = "bulk" /\ pc = "assignees"
    /\ LET ask == interactive /\ Len(flags.assignees) = 0
       IN \E ans \in (IF ask THEN AssigneeAnswers ELSE {NoAnswer}),
             ex \in getAllAssignees(selected) :
            \E ex2 \in (IF dryRun THEN getAllAssignees(selected) ELSE {ex}) :
               LET r == SelectResult(ans)
                   took == ask /\ Len(r.ids) > 0
                   as == IF took THEN r.ids ELSE flags.assignees
                   rep == IF took THEN r.replace ELSE flags.replaceAssignees
               IN IF ask /\ r.err # ""
                  THEN /\ ret' = r.err
                       /\ pc' = "done"
                       /\ UNCHANGED <<assignees, replaceAssignees, cleared, update,
                                      liveUpdate, hasUpdates>>
                  ELSE /\ assignees' = as
                       /\ replaceAssignees' = rep
                       /\ cleared' = IF ask /\ ans.kind = "clear"
                                     THEN cleared \cup {"assignees"} ELSE cleared
                       /\ update' = IF Len(as) > 0
                                    THEN [update EXCEPT !.Assignees = finalList(rep, as, ex)]
                                    ELSE update
                       /\ liveUpdate' = IF Len(as) > 0
                                        THEN [liveUpdate EXCEPT
                                                !.Assignees = finalList(rep, as, ex2)]
                                        ELSE liveUpdate
                       /\ hasUpdates' = (hasUpdates \/ Len(as) > 0)
                       /\ pc' = "estimate"
                       /\ UNCHANGED ret
    /\ UNCHANGED <<matches, cfgMin, fuzzyMatches, containing, selected, fields, successCount, failCount, calls,
                   preview, outcomes, summary>>
    /\ bulkFrame
    /\ matcherIdle

\* runBulkUpdate, lines 566-580: estimate
BulkEstimate ==
    /\ cmd = "bulk" /\ pc = "estimate"
    /\ LET ask == interactive /\ flags.estimate < 0
       IN \E ans \in (IF ask THEN EstimateAnswers ELSE {[err |-> "", val |-> -1]}) :
            LET estimate == IF ask /\ ans.val >= 0 THEN ans.val ELSE flags.estimate
            IN IF ask /\ ans.err # ""
               THEN /\ ret' = ans.err
                    /\ pc' = "done"
                    /\ UNCHANGED <<cleared, update, liveUpdate, hasUpdates>>
               ELSE /\ cleared' = IF estimate = 0
                                  THEN cleared \cup {"estimate_point"} ELSE cleared
                    /\ update' = IF estimate >= 0
                                 THEN [update EXCEPT !.EstimatePoint = estimate]
                                 ELSE update
                    /\ liveUpdate' = IF estimate >= 0
                                     THEN [liveUpdate EXCEPT !.EstimatePoint = estimate]
                                     ELSE liveUpdate
                    /\ hasUpdates' = (hasUpdates \/ estimate >= 0)
                    /\ pc' = "labels"
                    /\ UNCHANGED ret
    /\ UNCHANGED <<matches, cfgMin, fuzzyMatches, containing, selected, assignees, replaceAssignees, fields,
                   successCount, failCount, calls, preview, outcomes, summary>>
    /\ bulkFrame
    /\ matcherIdle

\* runBulkUpdate, lines 582-603: labels
BulkLabels ==
    /\ cmd = "bulk" /\ pc = "labels"
    /\ LET ask == interactive /\ Len(flags.labels) = 0
       IN \E ans \in (IF ask THEN LabelAnswers ELSE {NoAnswer}),
             ex \in getAllLabels(selected) :
            \E ex2 \in (IF dryRun THEN getAllLabels(selected) ELSE {ex}) :
               LET r == SelectResult(ans)
                   took == ask /\ Len(r.ids) > 0
                   labels == IF took THEN r.ids ELSE flags.labels
                   rep == IF took THEN r.replace ELSE flags.replaceLabels
               IN IF ask /\ r.err # ""
                  THEN /\ ret' = r.err
                       /\ pc' = "done"
                       /\ UNCHANGED <<cleared, update, liveUpdate, hasUpdates>>
                  ELSE /\ cleared' = IF ask /\ ans.kind = "clear"
                                     THEN cleared \cup {"labels"} ELSE cleared
                       /\ update' = IF Len(labels) > 0
                                    THEN [update EXCEPT !.Labels = finalList(rep, labels, ex)]
                                    ELSE update
                       /\ liveUpdate' = IF Len(labels) > 0
                                        THEN [liveUpdate EXCEPT
                                                !.Labels = finalList(rep, labels, ex2)]
                                        ELSE liveUpdate
                       /\ hasUpdates' = (hasUpdates \/ Len(labels) > 0)
                       /\ pc' = "module"
                       /\ UNCHANGED ret
    /\ UNCHANGED <<matches, cfgMin, fuzzyMatches, containing, selected, assignees, replaceAssignees, fields,
                   successCount, failCount, calls, preview, outcomes, summary>>
    /\ bulkFrame
    /\ matcherIdle

\* the state and priority flags (lines 619-627)
WithStateAndPriority(u, fl) ==
    [u EXCEPT !.State = IF fl.state # "" THEN fl.state ELSE @,
              !.Priority = IF fl.priority # "" THEN fl.priority ELSE @]

\* runBulkUpdate, lines 605-650: module, state, priority, the test that
\* something is to be updated, the preview and the dry-run exit
BulkModule ==
    /\ cmd = "bulk" /\ pc = "module"
    /\ LET ask == interactive /\ flags.module = ""
       IN \E ans \in (IF ask THEN ModuleAnswers ELSE {[err |-> "", val |-> ""]}) :
            LET moduleID == IF ask THEN ans.val ELSE flags.module
                Fill(u) == WithStateAndPriority(
                               IF moduleID # "" THEN [u EXCEPT !.Module = moduleID] ELSE u,
                               flags)
                has == \/ hasUpdates
                       \/ moduleID # ""
                       \/ flags.state # ""
                       \/ flags.priority # ""
            IN IF ask /\ ans.err # ""
               THEN /\ ret' = ans.err
                    /\ pc' = "done"
                    /\ UNCHANGED <<cleared, update, liveUpdate, hasUpdates, preview>>
               ELSE /\ cleared' = IF ask /\ ans.val = ""
                                  THEN cleared \cup {"module"} ELSE cleared
                    /\ update' = Fill(update)
                    /\ liveUpdate' = Fill(liveUpdate)
                    /\ hasUpdates' = has
                    /\ IF ~has
                       THEN /\ ret' = "nil"
                            /\ pc' = "done"
                            /\ UNCHANGED preview
                       ELSE /\ preview' = IdsOf(selected)
                            /\ ret' = IF dryRun THEN "nil" ELSE ret
                            /\ pc' = IF dryRun THEN "done" ELSE "confirm"
    /\ UNCHANGED <<matches, cfgMin, fuzzyMatches, containing, selected, assignees, replaceAssignees, fields,
                   successCount, failCount, calls, outcomes, summary>>
    /\ bulkFrame
    /\ matcherIdle

\* the updates are applied whatever the prompt returned
AfterConfirmAlways(answer) == "apply"

\* where the run goes after confirm(): to the loop on yes, out on an error
\* (`return err`) and on no (`return nil`)
AfterConfirm(answer) == IF answer = "yes" THEN "apply" ELSE "done"

\* the confirmation prompt of runBulkUpdate and runBulkUpdateInteractive
Confirm ==
    /\ cmd \in {"bulk", "menu"} /\ pc = "confirm"
    /\ \E answer \in {"yes", "no", "error"} :
        /\ pc' = AfterConfirm(answer)
        /\ ret' = IF answer = "yes" THEN ret
                  ELSE IF answer = "no" THEN "nil" ELSE "cancelled by user"
    /\ UNCHANGED <<matches, cfgMin, fuzzyMatches, containing, selected, assignees, replaceAssignees, cleared, update,
                   liveUpdate, hasUpdates, fields, successCount, failCount, calls, preview,
                   outcomes, summary>>
    /\ bulkFrame
    /\ matcherIdle

\* runBulkUpdateInteractive, lines 359-385: the project and the work items
MenuSelect ==
    /\ cmd = "menu" /\ pc = "start"
    /\ LET n == Len(allWorkItems)
       IN \/ /\ ret' = IF n = 0 THEN "no work items found in this project"
                       ELSE "cancelled by user"
             /\ pc' = "done"
             /\ UNCHANGED selected
          \/ /\ n > 0
             /\ \E indices \in Arrangements(1..n) :
                  IF Len(indices) = 0
                  THEN /\ ret' = "no work items selected"
                       /\ pc' = "done"
                       /\ UNCHANGED selected
                  ELSE /\ selected' = [i \in 1..Len(indices) |-> allWorkItems[indices[i]]]
                       /\ pc' = "menu"
                       /\ UNCHANGED ret
    /\ UNCHANGED <<matches, cfgMin, fuzzyMatches, containing, assignees, replaceAssignees, cleared, update, liveUpdate,
                   hasUpdates, fields, successCount, failCount, calls, preview, outcomes,
                   summary>>
    /\ bulkFrame
    /\ matcherIdle

\* the effect of one pass of the loop of chooseBulkUpdateFields on the
\* payload: [u, has, cl, as, rep] after the pass, for the entry idx chosen
\* and the answer ans given to its prompt
MenuField(idx, ans, ex, u, has, cl, as, rep) ==
    LET same == [u |-> u, has |-> has, cl |-> cl, as |-> as, rep |-> rep]
    IN CASE idx = 0 ->
              LET r == SelectResult(ans)
              IN IF Len(r.ids) > 0
                 THEN [u |-> [u EXCEPT !.Assignees = finalList(r.replace, r.ids, ex)],
                       has |-> TRUE, cl |-> cl \ {"assignees"},
                       as |-> r.ids, rep |-> r.replace]
                 ELSE [same EXCEPT !.cl = IF ans.kind = "clear"
                                          THEN cl \cup {"assignees"} ELSE cl]
         [] idx = 1 ->
              IF ans.err = "" /\ ans.val >= 0
              THEN [same EXCEPT !.u = [u EXCEPT !.EstimatePoint = ans.val], !.has = TRUE,
                                !.cl = IF ans.val = 0 THEN cl \cup {"estimate_point"}
                                       ELSE cl \ {"estimate_point"}]
              ELSE same
         [] idx = 2 ->
              LET r == SelectResult(ans)
              IN IF Len(r.ids) > 0
                 THEN [same EXCEPT !.u = [u EXCEPT !.Labels = finalList(r.replace, r.ids, ex)],
                                   !.has = TRUE, !.cl = cl \ {"labels"}]
                 ELSE [same EXCEPT !.cl = IF ans.kind = "clear"
                                          THEN cl \cup {"labels"} ELSE cl]
         [] idx = 3 ->
              [same EXCEPT !.u = [u EXCEPT !.Module = ans.val], !.has = TRUE,
                           !.cl = IF ans.val = "" THEN cl \cup {"module"}
                                  ELSE cl \ {"module"}]
         [] idx = 4 ->
              IF ans.err = "" THEN [same EXCEPT !.u = [u EXCEPT !.State = ans.val],
                                                !.has = TRUE]
              ELSE same
         [] idx = 5 ->
              IF ans.err = "" THEN [same EXCEPT !.u = [u EXCEPT !.Priority = ans.val],
                                                !.has = TRUE]
              ELSE same

\* the answers the prompt of menu entry idx may get
MenuAnswers(idx) ==
    CASE idx = 0 -> AssigneeAnswers
      [] idx = 1 -> EstimateAnswers
      [] idx = 2 -> LabelAnswers
      [] idx = 3 -> ModuleAnswers
      [] idx = 4 -> {[err |-> "cancelled by user", val |-> ""], [err |-> "", val |-> "Todo"]}
      [] idx = 5 -> {[err |-> "cancelled by user", val |-> ""], [err |-> "", val |-> "high"]}

\* the error that makes chooseBulkUpdateFields return instead of looping
MenuFatal(idx, ans) ==
    CASE idx \in {0, 2} -> ans.kind = "error"
      [] idx = 3 -> ans.err # ""
      [] OTHER -> FALSE

\* chooseBulkUpdateFields: one pass of the loop; "Done" also prints the
\* preview of runBulkUpdateInteractive
MenuChoose ==
    /\ cmd = "menu" /\ pc = "menu"
    /\ \/ \* the menu prompt fails
          /\ ret' = "cancelled by user"
          /\ pc' = "done"
          /\ UNCHANGED <<assignees, replaceAssignees, cleared, update, liveUpdate,
                         hasUpdates, fields, preview>>
       \/ \* entries 0-5: one field
          /\ fields < MaxMenu
          /\ \E idx \in 0..5 :
               \E ans \in MenuAnswers(idx),
                  ex \in (IF idx = 2 THEN getAllLabels(selected)
                          ELSE getAllAssignees(selected)) :
                  IF MenuFatal(idx, ans)
                  THEN /\ ret' = "failed"
                       /\ pc' = "done"
                       /\ UNCHANGED <<assignees, replaceAssignees, cleared, update,
                                      liveUpdate, hasUpdates, fields, preview>>
                  ELSE LET r == MenuField(idx, ans, ex, update, hasUpdates, cleared,
                                          assignees, replaceAssignees)
                       IN /\ update' = r.u
                          /\ liveUpdate' = r.u
                          /\ hasUpdates' = r.has
                          /\ cleared' = r.cl
                          /\ assignees' = r.as
                          /\ replaceAssignees' = r.rep
                          /\ fields' = fields + 1
                          /\ UNCHANGED <<pc, ret, preview>>
       \/ \* entry 6, Done: loops while nothing was chosen
          /\ hasUpdates
          /\ preview' = IdsOf(selected)
          /\ pc' = "confirm"
          /\ UNCHANGED <<assignees, replaceAssignees, cleared, update, liveUpdate,
                         hasUpdates, fields, ret>>
       \/ \* entry 7, Cancel
          /\ ret' = "nil"
          /\ pc' = "done"
          /\ UNCHANGED <<assignees, replaceAssignees, cleared, update, liveUpdate,
                         hasUpdates, fields, preview>>
    /\ UNCHANGED <<matches, cfgMin, fuzzyMatches, containing, selected, successCount, failCount, calls, outcomes,
                   summary>>
    /\ bulkFrame
    /\ matcherIdle

\* searchAndSelectWorkItem (interactive update): one pass of its loop, from
\* the search term to the choice among the matches; a pass that ends in
\* `continue` leaves the run at the start of the loop, and the match list
\* and the matcher are locals of the pass
SearchAndSelect ==
    /\ cmd = "search" /\ pc = "start"
    /\ LET n == Len(allWorkItems)
       IN \/ \* the prompt for the term or the fetch of the work items fails
             /\ ret' = "failed to fetch work items"
             /\ pc' = "done"
             /\ matches' = <<>> /\ cfgMin' = -1
             /\ fuzzyMatches' = <<>> /\ containing' = {}
             /\ UNCHANGED selected
          \/ /\ n = 0
             /\ ret' = "no work items found in this project"
             /\ pc' = "done"
             /\ matches' = <<>> /\ cfgMin' = -1
             /\ fuzzyMatches' = <<>> /\ containing' = {}
             /\ UNCHANGED selected
          \/ /\ n > 0
             /\ \E pat \in SearchTerms, min \in CmdMinScores, fnd \in CmdFindResults(n) :
                 LET m == NewMatcher(min)
                     fuzzy == FindMatches(m, pat, fnd)
                 IN \E contains \in ContainSets(pat, fnd, n) :
                     LET ms == MatchList(fuzzy, n, contains)
                     IN /\ matches' = ms
                        /\ cfgMin' = m
                        /\ fuzzyMatches' = fuzzy
                        /\ containing' = IF Len(fuzzy) = 0 THEN contains ELSE {}
                        /\ IF Len(ms) = 0
                           THEN \* "Try again?": an error, yes or no
                                /\ \E retry \in {"error", "yes", "no"} :
                                     /\ pc' = IF retry = "yes" THEN "start" ELSE "done"
                                     /\ ret' = IF retry = "yes" THEN ret
                                               ELSE IF retry = "no" THEN "no matches found"
                                               ELSE "cancelled by user"
                                /\ UNCHANGED selected
                           ELSE \* the choice among the matches
                                \/ /\ UNCHANGED <<pc, ret, selected>>
                                \/ /\ pc' = "done"
                                   /\ ret' = "prompt failed"
                                   /\ UNCHANGED selected
                                \/ \E idx \in 1..Len(ms) :
                                     /\ selected' = <<allWorkItems[ms[idx].Index + 1]>>
                                     /\ pc' = "done"
                                     /\ ret' = "nil"
    /\ UNCHANGED <<assignees, replaceAssignees, cleared, update, liveUpdate, hasUpdates,
                   fields, successCount, failCount, calls, preview, outcomes, summary>>
    /\ bulkFrame
    /\ matcherIdle

-----------------------------------------------------------------------------
(* updateInteractive: the selection typed and the targets it gives *)

\* updateInteractive, lines 346-358, for the items 1..selMax
CallParseSelection ==
    /\ ~selDone
    /\ selDone' = TRUE
    /\ LET items == Project(selMax)
           picked == parseSelection(selInput, Len(items))
       IN /\ selOut' = picked
          /\ selTargets' = [i \in 1..Len(picked) |-> items[picked[i]].ID]
    /\ UNCHANGED <<selInput, selMax>>
    /\ UNCHANGED <<matcherVars, normVars, limitVars, pageVars, mergeVars, cmdVars>>

SelectNext == CallParseSelection

SelectInit ==
    /\ minArg = 0
    /\ minScore = 0
    /\ argRaw = 0
    /\ argLen = 0
    /\ scored = FALSE
    /\ normalized = 0
    /\ limitArg = 0
    /\ limitDone = FALSE
    /\ limited = <<>>
    /\ selMax \in 1..MaxWork
    /\ selInput \in Selections(selMax)
    /\ selDone = FALSE
    /\ selOut = <<>>
    /\ selTargets = <<>>
    /\ fetcher = "none"
    /\ srv = <<>>
    /\ requests = <<>>
    /\ allItems = <<>>
    /\ pagePc = "done"
    /\ pageRet = "nil"
    /\ pattern = <<>>
    /\ nItems = 0
    /\ found = <<>>
    /\ called = FALSE
    /\ usedMin = 0
    /\ results = <<>>
    /\ existing = <<>>
    /\ incoming = <<>>
    /\ mstep = 0
    /\ merged = <<>>
    /\ remerged = <<>>
    /\ cmd = "none"
    /\ pc = "done"
    /\ dryRun = FALSE
    /\ interactive = FALSE
    /\ auto = FALSE
    /\ flags = <<>>
    /\ allWorkItems = <<>>
    /\ matches = <<>>
    /\ cfgMin = -1
    /\ fuzzyMatches = <<>>
    /\ containing = {}
    /\ selected = <<>>
    /\ assignees = <<>>
    /\ replaceAssignees = FALSE
    /\ cleared = {}
    /\ update = NoUpdate
    /\ liveUpdate = NoUpdate
    /\ hasUpdates = FALSE
    /\ fields = 0
    /\ successCount = 0
    /\ failCount = 0
    /\ calls = <<>>
    /\ preview = <<>>
    /\ outcomes = <<>>
    /\ summary = <<>>
    /\ ret = "running"

SelectSpec == SelectInit /\ [][SelectNext]_vars

-----------------------------------------------------------------------------
(* The fetch of the work items: fetchAllWorkItems,
   fetchAllWorkItemsForProject and Client.SearchWorkItems *)

MaxPages == 2
MaxRequests == MaxPages + 2

Fetchers == {"fetchAllWorkItems", "fetchAllWorkItemsForProject"}

\* what the server answers to a request, by the cursor of the request (0 for
\* a request without cursor): NextPageResults and NextCursor (0 for nil);
\* the results of the page reached with cursor c are the one item c
Servers == [0..MaxPages -> [next : BOOLEAN, cursor : 0..MaxPages]]

PageResults(c) == <<c>>

\* the loop goes on with the cursor when the server reports a next page
fetchAgainOnCursor(response) == response.next /\ response.cursor # 0

\* fetchAllWorkItems / fetchAllWorkItemsForProject after the append: `break`
\* when there is no next page, and `break` when there is one
fetchAgain(response) == FALSE

\* one pass of the loop of fetchAllWorkItems / fetchAllWorkItemsForProject:
\* the request carries offset 0 and limit 100, and no cursor
FetchStep ==
    /\ fetcher \in Fetchers /\ pagePc = "loop"
    /\ Len(requests) < MaxRequests
    /\ requests' = Append(requests, 0)
    /\ \/ \* GetWorkItems fails
          /\ allItems' = <<>>
          /\ pagePc' = "done"
          /\ pageRet' = "err"
       \/ LET response == srv[0]
          IN /\ allItems' = allItems \o PageResults(0)
             /\ pagePc' = IF fetchAgain(response) THEN "loop" ELSE "done"
             /\ pageRet' = IF fetchAgain(response) THEN pageRet ELSE "nil"
    /\ UNCHANGED <<fetcher, srv>>
    /\ UNCHANGED <<matcherVars, normVars, limitVars, parseVars, mergeVars, cmdVars>>

\* the cursor of the request of a pass of Client.SearchWorkItems: options is
\* a new empty map in every pass, and the cursor stored into it at the end
\* of the pass before is gone with the map of that pass
SearchCursor(sent) == 0

\* one pass of the loop of Client.SearchWorkItems
SearchStep ==
    /\ fetcher = "SearchWorkItems" /\ pagePc = "loop"
    /\ Len(requests) < MaxRequests
    /\ LET c == SearchCursor(requests)
       IN /\ requests' = Append(requests, c)
          /\ \/ \* GetWorkItems fails
                /\ allItems' = <<>>
                /\ pagePc' = "done"
                /\ pageRet' = "err"
             \/ LET response == srv[c]
                    more == response.next /\ response.cursor # 0
                IN /\ allItems' = allItems \o PageResults(c)
                   /\ pagePc' = IF more THEN "loop" ELSE "done"
                   /\ pageRet' = IF more THEN pageRet ELSE "nil"
    /\ UNCHANGED <<fetcher, srv>>
    /\ UNCHANGED <<matcherVars, normVars, limitVars, parseVars, mergeVars, cmdVars>>

PageNext ==
    \/ FetchStep
    \/ SearchStep

PageInit ==
    /\ minArg = 0
    /\ minScore = 0
    /\ argRaw = 0
    /\ argLen = 0
    /\ scored = FALSE
    /\ normalized = 0
    /\ limitArg = 0
    /\ limitDone = FALSE
    /\ limited = <<>>
    /\ selInput = <<>>
    /\ selMax = 0
    /\ selDone = FALSE
    /\ selOut = <<>>
    /\ selTargets = <<>>
    /\ fetcher \in Fetchers \cup {"SearchWorkItems"}
    /\ srv \in Servers
    /\ requests = <<>>
    /\ allItems = <<>>
    /\ pagePc = "loop"
    /\ pageRet = "running"
    /\ pattern = <<>>
    /\ nItems = 0
    /\ found = <<>>
    /\ called = FALSE
    /\ usedMin = 0
    /\ results = <<>>
    /\ existing = <<>>
    /\ incoming = <<>>
    /\ mstep = 0
    /\ merged = <<>>
    /\ remerged = <<>>
    /\ cmd = "none"
    /\ pc = "done"
    /\ dryRun = FALSE
    /\ interactive = FALSE
    /\ auto = FALSE
    /\ flags = <<>>
    /\ allWorkItems = <<>>
    /\ matches = <<>>
    /\ cfgMin = -1
    /\ fuzzyMatches = <<>>
    /\ containing = {}
    /\ selected = <<>>
    /\ assignees = <<>>
    /\ replaceAssignees = FALSE
    /\ cleared = {}
    /\ update = NoUpdate
    /\ liveUpdate = NoUpdate
    /\ hasUpdates = FALSE
    /\ fields = 0
    /\ successCount = 0
    /\ failCount = 0
    /\ calls = <<>>
    /\ preview = <<>>
    /\ outcomes = <<>>
    /\ summary = <<>>
    /\ ret = "running"

\* the loops are sequential code: a pass that can run does run
PageSpec == PageInit /\ [][PageNext]_vars /\ WF_vars(PageNext)

-----------------------------------------------------------------------------
(* The commands: specification *)

FlagSetsOf(c) ==
    IF c \in {"updateID", "update"} THEN UpdateFlagSets
    ELSE IF c = "bulk" THEN BulkFlagSets ELSE {<<>>}

\* a command line: the command, its behaviour flags, the flags that fill
\* the payload, and the work items of the project
Init ==
    /\ cmd \in {"updateID", "update", "bulk", "menu", "search"}
    /\ pc = "start"
    /\ dryRun \in (IF cmd \in {"menu", "search"} THEN {FALSE} ELSE BOOLEAN)
    /\ interactive \in (IF cmd \in {"menu", "search"} THEN {FALSE} ELSE BOOLEAN)
    /\ auto \in (IF cmd \in {"updateID", "update"} THEN BOOLEAN ELSE {FALSE})
    /\ flags \in FlagSetsOf(cmd)
    /\ allWorkItems \in {Project(n) : n \in 0..MaxWork}
    /\ matches = <<>>
    /\ cfgMin = -1
    /\ fuzzyMatches = <<>>
    /\ containing = {}
    /\ selected = <<>>
    /\ assignees = <<>>
    /\ replaceAssignees = FALSE
    /\ cleared = {}
    /\ update = IF cmd \in {"updateID", "update"} THEN BuildUpdate(flags) ELSE NoUpdate
    /\ liveUpdate = update
    /\ hasUpdates = FALSE
    /\ fields = 0
    /\ successCount = 0
    /\ failCount = 0
    /\ calls = <<>>
    /\ preview = <<>>
    /\ outcomes = <<>>
    /\ summary = <<>>
    /\ ret = "running"
    /\ minScore = 0
    /\ minArg = 0
    /\ argRaw = 0
    /\ argLen = 0
    /\ scored = FALSE
    /\ normalized = 0
    /\ limitArg = 0
    /\ limitDone = FALSE
    /\ limited = <<>>
    /\ selInput = <<>>
    /\ selMax = 0
    /\ selDone = FALSE
    /\ selOut = <<>>
    /\ selTargets = <<>>
    /\ fetcher = "none"
    /\ srv = <<>>
    /\ requests = <<>>
    /\ allItems = <<>>
    /\ pagePc = "done"
    /\ pageRet = "nil"
    /\ pattern = <<>>
    /\ nItems = 0
    /\ found = <<>>
    /\ called = FALSE
    /\ usedMin = 0
    /\ results = <<>>
    /\ existing = <<>>
    /\ incoming = <<>>
    /\ mstep = 0
    /\ merged = <<>>
    /\ remerged = <<>>

Next ==
    \/ UpdateByID
    \/ UpdateByFuzzyTitle
    \/ UpdateAsk
    \/ UpdateInteractive
    \/ BulkSelect
    \/ BulkAssignees
    \/ BulkEstimate
    \/ BulkLabels
    \/ BulkModule
    \/ MenuSelect
    \/ MenuChoose
    \/ SearchAndSelect
    \/ Confirm
    \/ ApplyOne

Spec == Init /\ [][Next]_vars

\* update --title-fuzzy and bulk-update given without --dry-run,
\* --interactive and --auto: the runs of updateAll and of the loop of
\* runBulkUpdate
FairInit ==
    /\ cmd \in {"update", "bulk"}
    /\ pc = "start"
    /\ dryRun = FALSE
    /\ interactive = FALSE
    /\ auto = FALSE
    /\ flags \in FlagSetsOf(cmd)
    /\ allWorkItems \in {Project(n) : n \in 0..MaxWork}
    /\ matches = <<>>
    /\ cfgMin = -1
    /\ fuzzyMatches = <<>>
    /\ containing = {}
    /\ selected = <<>>
    /\ assignees = <<>>
    /\ replaceAssignees = FALSE
    /\ cleared = {}
    /\ update = IF cmd \in {"updateID", "update"} THEN BuildUpdate(flags) ELSE NoUpdate
    /\ liveUpdate = update
    /\ hasUpdates = FALSE
    /\ fields = 0
    /\ successCount = 0
    /\ failCount = 0
    /\ calls = <<>>
    /\ preview = <<>>
    /\ outcomes = <<>>
    /\ summary = <<>>
    /\ ret = "running"
    /\ minScore = 0
    /\ minArg = 0
    /\ argRaw = 0
    /\ argLen = 0
    /\ scored = FALSE
    /\ normalized = 0
    /\ limitArg = 0
    /\ limitDone = FALSE
    /\ limited = <<>>
    /\ selInput = <<>>
    /\ selMax = 0
    /\ selDone = FALSE
    /\ selOut = <<>>
    /\ selTargets = <<>>
    /\ fetcher = "none"
    /\ srv = <<>>
    /\ requests = <<>>
    /\ allItems = <<>>
    /\ pagePc = "done"
    /\ pageRet = "nil"
    /\ pattern = <<>>
    /\ nItems = 0
    /\ found = <<>>
    /\ called = FALSE
    /\ usedMin = 0
    /\ results = <<>>
    /\ existing = <<>>
    /\ incoming = <<>>
    /\ mstep = 0
    /\ merged = <<>>
    /\ remerged = <<>>

FairNext ==
    \/ UpdateByFuzzyTitle
    \/ UpdateAsk
    \/ UpdateInteractive
    \/ BulkSelect
    \/ BulkAssignees
    \/ BulkEstimate
    \/ BulkLabels
    \/ BulkModule
    \/ Confirm
    \/ ApplyOne

\* the loop over the targets is sequential code: an iteration that can run, runs
FairSpec == FairInit /\ [][FairNext]_vars /\ WF_vars(ApplyOne)

-----------------------------------------------------------------------------
(* Claims *)

\* C1: FindMatches returns only results whose normalized score is >= the
\* matcher's min_score, and the returned sequence is sorted by score
\* non-increasing.
C1_ThresholdAndOrder ==
    called =>
        /\ \A i \in 1..Len(results) : results[i].Score >= usedMin
        /\ \A i \in 1..(Len(results) - 1) : results[i].Score >= results[i + 1].Score

\* a call that dropped a match below the threshold and returned two results
\* with different scores
C1_Witness ==
    /\ called
    /\ Len(results) >= 2
    /\ Len(results) < Len(found)
    /\ results[1].Score > results[Len(results)].Score

\* C2: two results with equal score appear in order of their original
\* candidate index, lower index first.
C2_StableByIndex ==
    called =>
        \A i, j \in 1..Len(results) :
            (i < j /\ results[i].Score = results[j].Score)
                => results[i].Index < results[j].Index

\* position of the first occurrence of x in s
FirstIdx(s, x) == CHOOSE i \in 1..Len(s) : s[i] = x /\ \A j \in 1..(i - 1) : s[j] # x

NoDup(s) == \A i, j \in 1..Len(s) : i # j => s[i] # s[j]

\* C9: in Add mode the merged list is exactly the union of existing and
\* incoming: the existing members first, in their original order, then the
\* incoming members not already present, in their given order, and no
\* element twice (first occurrence wins).
C9_AddIsOrderedUnion ==
    mstep >= 1 =>
        LET k == Cardinality(Range(existing))
        IN /\ NoDup(merged)
           /\ Range(merged) = Range(existing) \cup Range(incoming)
           /\ \A i \in 1..Len(merged) : (i <= k) <=> (merged[i] \in Range(existing))
           /\ \A i, j \in 1..Len(merged) :
                (i < j /\ j <= k)
                    => FirstIdx(existing, merged[i]) < FirstIdx(existing, merged[j])
           /\ \A i, j \in 1..Len(merged) :
                (k < i /\ i < j)
                    => FirstIdx(incoming, merged[i]) < FirstIdx(incoming, merged[j])

\* a merge where the incoming list repeats an existing member, brings a new
\* one and holds some member twice
C9_Witness ==
    /\ mstep >= 1
    /\ Cardinality(Range(existing)) >= 1
    /\ Range(existing) \cap Range(incoming) # {}
    /\ Range(incoming) \ Range(existing) # {}
    /\ ~NoDup(incoming)

\* C10: Add merge is idempotent: merging the same incoming list into the
\* result of the merge changes nothing.
C10_AddIdempotent == mstep = 2 => remerged = merged

\* the second merge has run on a result that holds both old and new members
C10_Witness ==
    /\ mstep = 2
    /\ Range(existing) # {}
    /\ Range(incoming) \ Range(existing) # {}
    /\ Len(merged) > Len(existing)

\* the batch loop has started or has finished
InBatch == pc = "apply" \/ summary # <<>>

\* C3: in the loop of a batch update a failed call does not end the batch:
\* the calls made so far are one per target, in the order of the target
\* list, all with the body of the one payload; the loop goes on while
\* targets are left and ends with as many calls as targets
C3_NoAbortOnFailure ==
    InBatch =>
        /\ Len(calls) = Len(outcomes)
        /\ Len(calls) <= Len(selected)
        /\ \A i \in 1..Len(calls) :
              /\ calls[i].ID = selected[i].ID
              /\ calls[i].Body = MarshalJSON(update)
        /\ (pc = "apply" <=> Len(calls) < Len(selected))
        /\ (summary # <<>> <=> Len(calls) = Len(selected))

C3_Witness ==
    /\ summary # <<>>
    /\ Len(selected) >= 2
    /\ calls[1].Err # ""
    /\ calls[2].Err = ""
    /\ selected[1].ID > selected[2].ID

\* the calls that returned nil / an error
Succeeded == {i \in 1..Len(calls) : calls[i].Err = ""}
Failed == {i \in 1..Len(calls) : calls[i].Err # ""}

\* C4: when a batch of N targets has finished, the success count is the
\* number of calls that returned nil, the failures are the number of calls
\* that returned an error, both add up to N, the closing lines print these
\* counts, and the report line of a failed target carries the error returned
C4_CountsAndErrors ==
    summary # <<>> =>
        LET n == Len(selected)
            failures == IF cmd = "update" THEN n - successCount ELSE failCount
        IN /\ successCount = Cardinality(Succeeded)
           /\ failures = Cardinality(Failed)
           /\ successCount + failures = n
           /\ summary[1].count = Cardinality(Succeeded) /\ summary[1].of = n
           /\ (Len(summary) = 2 => summary[2].count = Cardinality(Failed))
           /\ \A i \in 1..n :
                 /\ outcomes[i].ID = selected[i].ID
                 /\ outcomes[i].ok = (i \in Succeeded)
                 /\ outcomes[i].err = calls[i].Err

C4_Witness ==
    /\ summary # <<>>
    /\ cmd = "bulk"
    /\ Len(selected) = 2
    /\ successCount = 1
    /\ failCount = 1
    /\ outcomes[2].err = "e2"

\* C5: with --dry-run no call of UpdateWorkItem is ever made, whatever the
\* other flags are, and a dry run that ends with a preview lists the
\* selected targets, one entry each, in their order
C5_DryRunMakesNoCalls ==
    dryRun =>
        /\ calls = <<>>
        /\ pc \notin {"apply", "confirm", "ask", "pick"}
        /\ (preview # <<>> => preview = IdsOf(selected))
        /\ (pc = "done" /\ ret = "nil" /\ selected # <<>>
                /\ (cmd = "bulk" => hasUpdates) => preview = IdsOf(selected))

C5_Witness ==
    /\ dryRun /\ pc = "done"
    /\ Len(preview) >= 2
    /\ preview[1] > preview[2]
    /\ (auto \/ interactive)

\* C6: a dry run computes the payload a live run computes from the same
\* inputs: at the end of a dry run with a preview, the payload shown is the
\* payload the live run sends
C6_DryRunPredictsLiveRun ==
    (dryRun /\ pc = "done" /\ preview # <<>>) => update = liveUpdate

\* C7: after Clear was chosen for assignees or labels, every call made has
\* the field in its body, set to the empty list
C7_ClearIsExplicit ==
    \A i \in 1..Len(calls) :
        \A f \in cleared \cap {"assignees", "labels"} :
            /\ f \in DOMAIN calls[i].Body
            /\ calls[i].Body[f] = <<>>

\* the list without the later copies of its members
RECURSIVE Dedupe(_)
Dedupe(s) ==
    IF s = <<>> THEN <<>>
    ELSE LET front == Dedupe(SubSeq(s, 1, Len(s) - 1))
         IN IF s[Len(s)] \in Range(front) THEN front ELSE Append(front, s[Len(s)])

\* C8: in Replace mode the assignees put into the payload are the incoming
\* list without duplicates, in incoming order
C8_ReplaceIsDedupe ==
    (cmd \in {"bulk", "menu"} /\ replaceAssignees /\ Len(assignees) > 0)
        => update.Assignees = Dedupe(assignees)

\* the union of the current assignees of the targets
CurrentAssignees == UNION {Range(selected[i].Assignees) : i \in 1..Len(selected)}

\* C11: in Add mode the assignees of the payload are the members of the
\* union of the current assignees of all selected targets and of the
\* incoming list, and every target of the batch is sent that one list
C11_OneFinalSetForTheBatch ==
    (cmd \in {"bulk", "menu"} /\ ~replaceAssignees /\ Len(assignees) > 0) =>
        /\ Range(update.Assignees) = CurrentAssignees \cup Range(assignees)
        /\ \A i \in 1..Len(calls) :
              /\ "assignees" \in DOMAIN calls[i].Body
              /\ calls[i].Body["assignees"] = update.Assignees
              /\ calls[i].Body = calls[1].Body

C11_Witness ==
    /\ cmd = "bulk" /\ ~replaceAssignees /\ Len(assignees) > 0
    /\ Len(calls) = 2
    /\ calls[1].ID # calls[2].ID
    /\ Range(selected[1].Assignees) # Range(selected[2].Assignees)
    /\ Range(selected[1].Assignees) # CurrentAssignees
    /\ Range(assignees) \ CurrentAssignees # {}

\* C12: the merged list of an Add merge is the same, in members and in
\* order, in every run over the same targets and the same incoming values:
\* the list of this run is the list of the other run
C12_MergeIsDeterministic ==
    (cmd = "bulk" /\ pc = "done" /\ hasUpdates /\ ret = "nil") =>
        /\ update.Assignees = liveUpdate.Assignees
        /\ update.Labels = liveUpdate.Labels

\* C13: the value normalizeScore returns lies between 0 and 100, for
\* negative, zero and large raw scores and for every pattern length
C13_ScoreInRange == scored => normalized \in 0..100

C13_Witness ==
    /\ scored
    /\ argLen = 5
    /\ argRaw > 20
    /\ normalized = 100

\* the ceiling of the spec for a pattern length, and rounding to nearest
Ceiling(len) == IF len <= 2 THEN 2 * len ELSE IF len <= 4 THEN 3 * len ELSE 4 * len

Boosted == argLen <= 3 /\ argRaw >= argLen

Round(a, b) == (2 * a + b) \div (2 * b)

\* C14: for a positive raw score and no boost the value returned is
\* min(100, round(raw * 100 / ceiling))
C14_RoundedPercentage ==
    (scored /\ argRaw > 0 /\ argLen > 0 /\ ~Boosted) =>
        normalized = Min(100, Round(argRaw * 100, Ceiling(argLen)))

\* C15: 30 points are added to the percentage before the cut at 100 exactly
\* when the pattern length is at most 3 and the raw score is at least the
\* pattern length (pattern lengths and raw scores from 1)
C15_BoostIsThirty ==
    (scored /\ argRaw > 0 /\ argLen > 0) =>
        LET percentage == (argRaw * 100) \div Ceiling(argLen)
        IN normalized = Min(100, percentage + (IF Boosted THEN 30 ELSE 0))

C15_Witness ==
    /\ scored
    /\ argLen = 3
    /\ argRaw = 3
    /\ normalized = 63

\* C16: a pattern of length 1, 2 or 3 with a raw score of at least its
\* length gets a value of 80 or more
C16_ShortFullMatchAtLeast80 ==
    (scored /\ argLen \in 1..3 /\ argRaw >= argLen) => normalized >= 80

\* C17: a raw score of zero or less, or a pattern length of zero, gives 0
C17_ZeroForNoScore ==
    (scored /\ (argRaw <= 0 \/ argLen = 0)) => normalized = 0

C17_Witness ==
    /\ scored
    /\ argRaw > 0
    /\ argLen = 0
    /\ normalized = 0

\* C18: FindMatches called with the empty pattern returns no result,
\* whatever the candidates and the threshold are (0 included), and
\* FindBestMatch returns nil
C18_EmptyPatternNoResult ==
    (called /\ pattern = <<>>) =>
        /\ results = <<>>
        /\ FindBestMatch(usedMin, pattern, found) = <<>>

C18_Witness ==
    /\ called
    /\ pattern = <<>>
    /\ usedMin = 0
    /\ nItems > 0
    /\ found # <<>>
    /\ results = <<>>

\* C19: after NewMatcher and any SetMinScore calls the threshold is in
\* 0..100: 0 for an argument below 0, 100 for one above 100, the argument
\* itself otherwise
C19_ThresholdClamped ==
    /\ minScore \in 0..100
    /\ (minArg < 0 => minScore = 0)
    /\ (minArg > 100 => minScore = 100)
    /\ (minArg \in 0..100 => minScore = minArg)

C19_Witness ==
    /\ called
    /\ usedMin = 60
    /\ minArg = 150
    /\ minScore = 100

\* C20: the substring fallback runs only when FindMatches returned nothing:
\* a match list computed from at least one fuzzy result is that result; one
\* computed from none has one entry of score 50 for each title containing
\* the term and no other entry, in the order of the titles
C20_FallbackOnlyWhenEmpty ==
    cmd \in {"bulk", "search"} =>
        /\ (fuzzyMatches # <<>> => matches = fuzzyMatches)
        /\ (fuzzyMatches = <<>> =>
              /\ {matches[i].Index : i \in 1..Len(matches)} = containing
              /\ \A i \in 1..Len(matches) : matches[i].Score = 50
              /\ \A i, j \in 1..Len(matches) :
                    i < j => matches[i].Index < matches[j].Index)

C20_Witness ==
    /\ cmd = "bulk"
    /\ fuzzyMatches = <<>>
    /\ Len(matches) = 2
    /\ cfgMin > 0

\* C21: every entry of the match list the targets of bulk-update and of the
\* interactive update are taken from has a score of at least the
\* configured minimum score
C21_AcceptedAboveMinScore ==
    cmd \in {"bulk", "search"} =>
        \A i \in 1..Len(matches) : matches[i].Score >= cfgMin

\* C22: once the loop over the targets has begun the batch runs to its end:
\* the summary is printed only when every target has been processed, never
\* while the loop runs, the command then returns nil also when targets
\* failed, and a loop that has begun reaches that end
C22_RunsToDone ==
    /\ [](pc = "apply" => summary = <<>>)
    /\ [](summary # <<>> =>
             /\ pc = "done"
             /\ ret = "nil"
             /\ Len(outcomes) = Len(selected))
    /\ (pc = "apply") ~> (pc = "done" /\ summary # <<>> /\ ret = "nil")

C22_Witness ==
    /\ pc = "done"
    /\ summary # <<>>
    /\ failCount > 0
    /\ Len(outcomes) = 2
    /\ ret = "nil"


\* C23: FindMatches does not truncate: each match the scoring library
\* returned whose normalized score reaches the threshold is in the result
\* exactly once, and nothing else is; LimitResults returns its input
\* unchanged for a limit of zero or less and otherwise the first
\* min(len, limit) results in their order
C23_OnlyLimitResultsTruncates ==
    LET p == ToLower(TrimSpace(pattern))
        scorer == IF pattern = <<>> \/ p = <<>> THEN <<>> ELSE found
        passing == {k \in 1..Len(scorer) :
                       normalizeScore(scorer[k].Score, Len(p)) >= usedMin}
    IN /\ called =>
            /\ \A k \in passing :
                   Cardinality({i \in 1..Len(results) :
                                   results[i].Index = scorer[k].Index}) = 1
            /\ Len(results) = Cardinality(passing)
       /\ limitDone =>
            /\ limitArg <= 0 => limited = results
            /\ limitArg > 0 =>
                   /\ Len(limited) = Min(Len(results), limitArg)
                   /\ \A i \in 1..Len(limited) : limited[i] = results[i]

C23_Witness ==
    /\ limitDone
    /\ limitArg = 2
    /\ Len(found) = 3
    /\ Len(results) = 3
    /\ Len(limited) = 2

\* the errors that report an empty search
NotFoundErrors == {"no work items found matching", "no matches found"}

\* C24: a search that yields no match after the threshold and the fallback
\* ends the command with a not-found error and without any mutate call, in
\* update --title-fuzzy, bulk-update --search and interactive-update (where
\* the "Try again?" prompt may also fail with its own error)
C24_NoMatchIsNotFoundError ==
    (/\ cmd \in {"update", "bulk", "search"}
     /\ pc = "done"
     /\ cfgMin >= 0
     /\ matches = <<>>)
        => /\ calls = <<>>
           /\ \/ ret \in NotFoundErrors
              \/ cmd = "search" /\ ret = "cancelled by user"

\* C25: a field the user set to empty or to zero is told apart from a field
\* left unset: once bulk update has recorded an estimate of 0, or the menu a
\* cleared module, as an update, every call made carries that field in its
\* body, with the value 0 or ""
C25_ZeroAndEmptyAreSent ==
    \A i \in 1..Len(calls) :
        /\ (cmd \in {"bulk", "menu"} /\ hasUpdates /\ "estimate_point" \in cleared) =>
               /\ "estimate_point" \in DOMAIN calls[i].Body
               /\ calls[i].Body["estimate_point"] = 0
        /\ (cmd = "menu" /\ hasUpdates /\ "module" \in cleared) =>
               /\ "module" \in DOMAIN calls[i].Body
               /\ calls[i].Body["module"] = ""

\* one step of a bulk update keeps the calls behind the confirmation
GuardedStep ==
    cmd \in {"bulk", "menu"} =>
        /\ (calls' # calls => pc = "apply" /\ ret = "running")
        /\ (pc # "apply" /\ pc' = "apply" => pc = "confirm" /\ ret' = "running")
        /\ (pc = "confirm" /\ ret' # "running" => pc' = "done" /\ calls' = <<>>)
        /\ (pc = "done" => calls' = calls)

\* C26: in bulk-update, flag-driven and menu, UpdateWorkItem is called only
\* after the preview of the targets was shown, with dry-run off, an update
\* chosen and the confirmation answered yes: a call is made only in the loop
\* and while the command has not returned, the loop is entered only from the
\* confirmation prompt, and a run that returns from the prompt (declined or
\* failed) or without any update chosen ends with no call made
C26_CallsOnlyAfterConfirmation ==
    /\ [](cmd \in {"bulk", "menu"} /\ calls # <<>> =>
              /\ preview = IdsOf(selected)
              /\ ~dryRun
              /\ hasUpdates)
    /\ [](cmd \in {"bulk", "menu"} /\ pc = "done" /\ ~hasUpdates => calls = <<>>)
    /\ [][GuardedStep]_vars

C26_Witness ==
    /\ cmd = "menu"
    /\ pc = "done"
    /\ Len(calls) = 2
    /\ preview = IdsOf(selected)
    /\ ret = "nil"

\* C27: parseSelection returns, in input order, exactly the parts of the
\* input that Atoi reads as an integer of 1..max, so every index used by
\* updateInteractive is in range, and the targets handed to updateAll hold
\* each selected item at most once
C27_SelectionInRangeAndOnce ==
    selDone =>
        LET Valid(part) == ~part.err /\ part.num >= 1 /\ part.num <= selMax
            kept == SelectSeq(selInput, Valid)
        IN /\ selOut = [i \in 1..Len(kept) |-> kept[i].num]
           /\ \A i \in 1..Len(selOut) : selOut[i] \in 1..selMax
           /\ Len(selTargets) = Len(selOut)
           /\ NoDup(selTargets)

\* C28: every match used to pick targets, from FindMatches or from the
\* substring fallback, has an index of 0..len(candidates)-1 and no index is
\* there twice, so the target list built from the matches holds no work
\* item twice
C28_MatchIndicesInRangeAndDistinct ==
    (cmd \in {"update", "bulk", "search"} /\ cfgMin >= 0) =>
        /\ \A i \in 1..Len(matches) :
               matches[i].Index \in 0..(Len(allWorkItems) - 1)
        /\ \A i, j \in 1..Len(matches) :
               i # j => matches[i].Index # matches[j].Index
        /\ ((cmd = "bulk" /\ matches # <<>>) \/ (cmd = "update" /\ pc \in {"ask", "pick"})) =>
               /\ Len(selected) = Len(matches)
               /\ \A i \in 1..Len(selected) :
                      selected[i] = allWorkItems[matches[i].Index + 1]
               /\ NoDup(IdsOf(selected))

C28_Witness ==
    /\ cmd = "bulk"
    /\ fuzzyMatches = <<>>
    /\ Len(selected) = 2
    /\ pc = "done"
    /\ Len(calls) = 2
    /\ calls[1].ID # calls[2].ID

\* C29: fetchAllWorkItems and fetchAllWorkItemsForProject send one request,
\* without cursor, and return: with the results of that page alone whatever
\* next-page flag and cursor the server gave, or with no item and the error
\* when the request failed
C29_OnePageOnly ==
    /\ [](fetcher \in Fetchers =>
              /\ Len(requests) <= 1
              /\ (pagePc = "loop" => requests = <<>> /\ pageRet = "running")
              /\ (pagePc = "done" =>
                     /\ requests = <<0>>
                     /\ pageRet \in {"nil", "err"}
                     /\ (pageRet = "nil" => allItems = PageResults(0))
                     /\ (pageRet = "err" => allItems = <<>>)))
    /\ (fetcher \in Fetchers) ~> (pagePc = "done")

C29_Witness ==
    /\ fetcher = "fetchAllWorkItems"
    /\ srv[0].next
    /\ srv[0].cursor = 1
    /\ pagePc = "done"
    /\ pageRet = "nil"
    /\ requests = <<0>>
    /\ allItems = PageResults(0)

\* the server reaches a page without successor within n requests, following
\* its own cursors from cursor c
RECURSIVE ChainEnds(_, _)
ChainEnds(c, n) ==
    /\ n > 0
    /\ \/ ~(srv[c].next /\ srv[c].cursor # 0)
       \/ ChainEnds(srv[c].cursor, n - 1)

\* C30: Client.SearchWorkItems sends its first request without cursor and
\* every following request with the cursor of the page before, appends each
\* page it gets once, returns only on an error or when the server reports no
\* further page, and does return for a server whose pages come to an end
C30_SearchFollowsCursor ==
    /\ [](fetcher = "SearchWorkItems" =>
              /\ \A k \in 1..Len(requests) :
                     requests[k] = IF k = 1 THEN 0 ELSE srv[requests[k - 1]].cursor
              /\ (pageRet # "err" =>
                     allItems = [k \in 1..Len(requests) |-> PageResults(requests[k])[1]])
              /\ (pagePc = "done" /\ pageRet = "nil" =>
                     LET last == srv[requests[Len(requests)]]
                     IN ~(last.next /\ last.cursor # 0)))
    /\ (fetcher = "SearchWorkItems" /\ ChainEnds(0, MaxPages + 1)) ~> (pagePc = "done")

=============================================================================
